---- MODULE Spec2Model ----
(***************************************************************************)
(* dsql: the statement builder of src/dsql/querybuilder.py and the         *)
(* dispatcher and response handlers of src/dsql/manager.py.                *)
(*                                                                         *)
(* A Python string is a sequence of lexemes (words, single spaces,         *)
(* punctuation, digits), so that joining, quoting, splitting a predicate   *)
(* key and counting placeholders are computed, not assumed.  A Python      *)
(* value is tagged: an integer or a list of values.  An ordered mapping    *)
(* (OrderedDict) is a sequence of key/value items.  A call that raises     *)
(* yields a result whose exc names the exception.  The package targets     *)
(* Python 2.7 (src/setup.py:24), where dict.values() is a list.            *)
(***************************************************************************)
EXTENDS Integers, Sequences, FiniteSets, TLC

\* ---------------------------------------------------------------- bounds
MaxGroups == 2
MaxPreds == 2
MaxRecords == 2
MaxFields == 2
MaxLimit == 11
MaxOffset == 5
MaxRows == 2
MaxRowCount == 3
MaxLastRowId == 4
MaxAppends == 1

\* ----------------------------------------------------------------- state
\* pc, fn, args: the call in progress; ret: the statement built; resp: what
\* the manager returns; log: the calls the manager made, in order;
\* raw_default: the list object bound once to the default of build_raw_stmt's
\* `params`
VARIABLES pc, fn, args, ret, resp, log, raw_default
vars == <<pc, fn, args, ret, resp, log, raw_default>>

\* ---------------------------------------------------------------- values
IntVal(n) == [t |-> "int", n |-> n]
ListVal(s) == [t |-> "list", items |-> s]
IsList(v) == v.t = "list"

Item(k, v) == [key |-> k, value |-> v]
keys(d) == [i \in 1..Len(d) |-> d[i].key]
values(d) == [i \in 1..Len(d) |-> d[i].value]

Ok(s, p) == [exc |-> "", stmt |-> s, params |-> p]
Raise(e) == [exc |-> e, stmt |-> <<>>, params |-> <<>>]

RECURSIVE FirstExc(_)
FirstExc(rs) ==
    IF rs = <<>> THEN ""
    ELSE IF rs[1].exc # "" THEN rs[1].exc
    ELSE FirstExc(Tail(rs))

stmts(rs) == [i \in 1..Len(rs) |-> rs[i].stmt]

RECURSIVE Join(_, _)
Join(sep, parts) ==
    IF parts = <<>> THEN <<>>
    ELSE IF Len(parts) = 1 THEN parts[1]
    ELSE parts[1] \o sep \o Join(sep, Tail(parts))

RECURSIVE chain(_)
chain(lists) ==
    IF lists = <<>> THEN <<>>
    ELSE lists[1] \o chain(Tail(lists))

Repeat(x, n) == [i \in 1..n |-> x]

Digit(d) ==
    CASE d = 0 -> "0" [] d = 1 -> "1" [] d = 2 -> "2" [] d = 3 -> "3"
      [] d = 4 -> "4" [] d = 5 -> "5" [] d = 6 -> "6" [] d = 7 -> "7"
      [] d = 8 -> "8" [] d = 9 -> "9"

RECURSIVE str(_)
str(n) ==
    IF n < 10 THEN <<Digit(n)>>
    ELSE str(n \div 10) \o <<Digit(n % 10)>>

SP == <<" ">>
COMMA_SP == <<",", " ">>
PH == <<"%s">>
\* the backtick character, which a TLA+ string cannot hold
BACKTICK == "BACKTICK"

\* ------------------------------------------------------- querybuilder.py
quote_identifier(identifier, dialect) ==
    CASE dialect = "standard" -> Ok(<<"\"">> \o identifier \o <<"\"">>, <<>>)
      [] dialect = "postgresql" -> Ok(<<"\"">> \o identifier \o <<"\"">>, <<>>)
      [] dialect = "mysql" -> Ok(<<BACKTICK>> \o identifier \o <<BACKTICK>>, <<>>)
      [] OTHER -> Raise("KeyError")

\* flatten that ignores the depth limit
RECURSIVE flatten_unbounded(_, _, _)
flatten_unbounded(lst, depth, level) ==
    chain([i \in 1..Len(lst) |->
             IF IsList(lst[i])
             THEN flatten_unbounded(lst[i].items, depth, level + 1)
             ELSE <<lst[i]>>])

RECURSIVE flatten(_, _, _)
flatten(lst, depth, level) ==
    IF depth # 0 /\ depth = level THEN lst
    ELSE chain([i \in 1..Len(lst) |->
                  IF IsList(lst[i])
                  THEN flatten(lst[i].items, depth, level + 1)
                  ELSE <<lst[i]>>])

supported_operators ==
    << <<"=">>, <<">">>, <<"<">>, <<"!=">>, <<"<=">>, <<">=">>, <<"in">>,
       <<"not", " ", "in">>, <<"like">>, <<"not", " ", "like">> >>

\* validate_operator that lets every operator through
validate_operator_passthrough(operator) == Ok(operator, <<>>)

validate_operator(operator) ==
    IF \A i \in 1..Len(supported_operators) : supported_operators[i] # operator
    THEN Raise("ValueError")
    ELSE Ok(operator, <<>>)

\* str.split(' ', 1): the text before and the text after the first space
FirstSpace(s) == CHOOSE i \in 1..Len(s) : s[i] = " " /\ \A j \in 1..(i - 1) : s[j] # " "
split1(s) == << SubSeq(s, 1, FirstSpace(s) - 1), SubSeq(s, FirstSpace(s) + 1, Len(s)) >>

build_condition(predicate, value, dialect) ==
    IF \A i \in 1..Len(predicate) : predicate[i] # " "
    THEN Raise("Exception")
    ELSE LET fieldname == split1(predicate)[1]
             operator == split1(predicate)[2]
             placeholders ==
                 IF operator \in {<<"in">>, <<"not", " ", "in">>} /\ IsList(value)
                 THEN <<"(">> \o Join(<<",">>, Repeat(PH, Len(value.items))) \o <<")">>
                 ELSE PH
             q == quote_identifier(fieldname, dialect)
             op == validate_operator(operator)
         IN  IF q.exc # "" THEN Raise(q.exc)
             ELSE IF op.exc # "" THEN Raise(op.exc)
             ELSE Ok(q.stmt \o SP \o op.stmt \o SP \o placeholders, <<>>)

\* build_condition_group that joins its predicates with OR
build_condition_group_or(condition, dialect) ==
    LET conds == [i \in 1..Len(condition) |->
                    build_condition(condition[i].key, condition[i].value, dialect)]
    IN  IF FirstExc(conds) # "" THEN Raise(FirstExc(conds))
        ELSE Ok(Join(<<" ", "OR", " ">>, stmts(conds)), <<>>)

build_condition_group(condition, dialect) ==
    LET conds == [i \in 1..Len(condition) |->
                    build_condition(condition[i].key, condition[i].value, dialect)]
    IN  IF FirstExc(conds) # "" THEN Raise(FirstExc(conds))
        ELSE Ok(Join(<<" ", "AND", " ">>, stmts(conds)), <<>>)

build_where_clause(conditionlist, keyword, dialect) ==
    IF conditionlist = <<>> THEN Ok(<<>>, <<>>)
    ELSE LET groups == [i \in 1..Len(conditionlist) |->
                          build_condition_group(conditionlist[i], dialect)]
             tpl == Join(<<" ", "OR", " ">>,
                         [i \in 1..Len(groups) |-> <<"(">> \o groups[i].stmt \o <<")">>])
             vals == chain([i \in 1..Len(conditionlist) |->
                              flatten(values(conditionlist[i]), 1, 0)])
         IN  IF FirstExc(groups) # "" THEN Raise(FirstExc(groups))
             ELSE Ok(<<keyword>> \o SP \o tpl, vals)

build_having_clause(conditionlist, dialect) ==
    build_where_clause(conditionlist, "HAVING", dialect)

QuoteAll(names, dialect) == [i \in 1..Len(names) |-> quote_identifier(names[i], dialect)]

build_select_clause(fieldlist, dialect) ==
    IF fieldlist # <<>>
    THEN LET qs == QuoteAll(fieldlist, dialect)
         IN  IF FirstExc(qs) # "" THEN Raise(FirstExc(qs))
             ELSE Ok(<<"SELECT">> \o SP \o Join(COMMA_SP, stmts(qs)), <<>>)
    ELSE Ok(<<"SELECT", " ", "*">>, <<>>)

build_from_clause(tablename, dialect) ==
    LET q == quote_identifier(tablename, dialect)
    IN  IF q.exc # "" THEN Raise(q.exc)
        ELSE Ok(<<"FROM">> \o SP \o q.stmt, <<>>)

build_groupby_clause(grouplist, dialect) ==
    IF grouplist = <<>> THEN Ok(<<>>, <<>>)
    ELSE LET qs == QuoteAll(grouplist, dialect)
         IN  IF FirstExc(qs) # "" THEN Raise(FirstExc(qs))
             ELSE Ok(<<"GROUP", " ", "BY">> \o SP \o Join(COMMA_SP, stmts(qs)), <<>>)

\* the names bound at module level in querybuilder.py
ModuleNames ==
    {"OrderedDict", "chain", "buildquery", "build_select_stmt", "build_insert_stmt",
     "build_update_stmt", "build_delete_stmt", "build_raw_stmt", "build_select_clause",
     "build_from_clause", "build_insert_clause", "build_update_clause",
     "build_delete_clause", "build_where_clause", "validate_operator",
     "build_having_clause", "build_groupby_clause", "build_orderby_clause",
     "build_limit_clause", "quote_identifier", "flatten"}

RECURSIVE lstrip(_, _)
lstrip(s, ch) ==
    IF s # <<>> /\ s[1] = ch THEN lstrip(Tail(s), ch) ELSE s

\* the comprehension iterates the name `order`, which is neither a local nor
\* a module-level name
build_orderby_clause(orderlist, dialect) ==
    IF orderlist = <<>> THEN Ok(<<>>, <<>>)
    ELSE IF "order" \notin ModuleNames THEN Raise("NameError")
    ELSE LET qs == [i \in 1..Len(orderlist) |->
                      quote_identifier(lstrip(orderlist[i], "-"), dialect)]
             subclauses == [i \in 1..Len(orderlist) |->
                      qs[i].stmt \o SP \o
                      (IF orderlist[i][1] = "-" THEN <<"DESC">> ELSE <<"ASC">>)]
         IN  IF FirstExc(qs) # "" THEN Raise(FirstExc(qs))
             ELSE Ok(<<"ORDER", " ", "BY">> \o SP \o Join(COMMA_SP, subclauses), <<>>)

\* build_limit_clause that fills its template with (limit, offset)
build_limit_clause_swapped(limit, offset, dialect) ==
    IF limit = 0 THEN Ok(<<>>, <<>>)
    ELSE IF dialect = "postgresql"
    THEN Ok(<<"OFFSET">> \o SP \o str(limit) \o SP \o <<"LIMIT">> \o SP \o str(offset), <<>>)
    ELSE Ok(<<"LIMIT">> \o SP \o str(limit) \o COMMA_SP \o str(offset), <<>>)

build_limit_clause(limit, offset, dialect) ==
    IF limit = 0 THEN Ok(<<>>, <<>>)
    ELSE IF dialect = "postgresql"
    THEN Ok(<<"OFFSET">> \o SP \o str(offset) \o SP \o <<"LIMIT">> \o SP \o str(limit), <<>>)
    ELSE Ok(<<"LIMIT">> \o SP \o str(offset) \o COMMA_SP \o str(limit), <<>>)

build_insert_clause(tablename, recordlist, dialect) ==
    LET qt == quote_identifier(tablename, dialect)
        qf == QuoteAll(keys(recordlist[1]), dialect)
        tuple == <<"(">> \o Join(COMMA_SP, Repeat(PH, Len(keys(recordlist[1])))) \o <<")">>
        tpl == <<"INSERT", " ", "INTO", " ">> \o qt.stmt
               \o <<"(">> \o Join(COMMA_SP, stmts(qf)) \o <<")">>
               \o <<" ", "VALUES", " ">>
               \o Join(COMMA_SP, Repeat(tuple, Len(recordlist)))
        params == chain([i \in 1..Len(recordlist) |-> values(recordlist[i])])
    IN  IF qt.exc # "" THEN Raise(qt.exc)
        ELSE IF recordlist = <<>> THEN Raise("IndexError")
        ELSE IF FirstExc(qf) # "" THEN Raise(FirstExc(qf))
        ELSE Ok(tpl, params)

build_update_clause(tablename, recordpatch, dialect) ==
    LET qt == quote_identifier(tablename, dialect)
        qf == QuoteAll(keys(recordpatch), dialect)
        sets == [i \in 1..Len(qf) |-> qf[i].stmt \o <<"=">> \o PH]
    IN  IF qt.exc # "" THEN Raise(qt.exc)
        ELSE IF FirstExc(qf) # "" THEN Raise(FirstExc(qf))
        ELSE Ok(<<"UPDATE">> \o SP \o qt.stmt \o SP \o <<"SET">> \o SP
                \o Join(COMMA_SP, sets), values(recordpatch))

\* ' '.join(clauses) of a statement, after the clauses were built in order
JoinClauses(clauses, params) ==
    IF FirstExc(clauses) # "" THEN Raise(FirstExc(clauses))
    ELSE Ok(Join(SP, stmts(clauses)), params)

\* build_select_stmt that puts the HAVING parameters first
build_select_stmt_having_first(a) ==
    LET where == build_where_clause(a.where, "WHERE", a.dialect)
        having == build_having_clause(a.having, a.dialect)
    IN  IF where.exc # "" THEN Raise(where.exc)
        ELSE IF having.exc # "" THEN Raise(having.exc)
        ELSE JoinClauses(<< build_select_clause(a.fieldlist, a.dialect),
                            build_from_clause(a.tablename, a.dialect),
                            where,
                            build_groupby_clause(a.groupby, a.dialect),
                            having,
                            build_orderby_clause(a.orderby, a.dialect),
                            build_limit_clause(a.limit, a.offset, a.dialect) >>,
                         having.params \o where.params)

build_select_stmt(a) ==
    LET where == build_where_clause(a.where, "WHERE", a.dialect)
        having == build_having_clause(a.having, a.dialect)
    IN  IF where.exc # "" THEN Raise(where.exc)
        ELSE IF having.exc # "" THEN Raise(having.exc)
        ELSE JoinClauses(<< build_select_clause(a.fieldlist, a.dialect),
                            build_from_clause(a.tablename, a.dialect),
                            where,
                            build_groupby_clause(a.groupby, a.dialect),
                            having,
                            build_orderby_clause(a.orderby, a.dialect),
                            build_limit_clause(a.limit, a.offset, a.dialect) >>,
                         where.params \o having.params)

build_insert_stmt(a) ==
    LET ins == build_insert_clause(a.tablename, a.recordlist, a.dialect)
    IN  IF ins.exc # "" THEN Raise(ins.exc)
        ELSE IF a.dialect = "postgresql"
        THEN Ok(ins.stmt \o <<" ", "returning", " ", "id">>, ins.params)
        ELSE Ok(ins.stmt, ins.params)

build_update_stmt(a) ==
    LET upd == build_update_clause(a.tablename, a.recordpatch, a.dialect)
        where == build_where_clause(a.where, "WHERE", a.dialect)
    IN  IF upd.exc # "" THEN Raise(upd.exc)
        ELSE IF where.exc # "" THEN Raise(where.exc)
        ELSE JoinClauses(<< upd,
                            where,
                            build_orderby_clause(a.orderby, a.dialect),
                            build_limit_clause(a.limit, a.offset, a.dialect) >>,
                         upd.params \o where.params)

build_delete_stmt(a) ==
    LET where == build_where_clause(a.where, "WHERE", a.dialect)
    IN  IF where.exc # "" THEN Raise(where.exc)
        ELSE JoinClauses(<< Ok(<<"DELETE">>, <<>>),
                            build_from_clause(a.tablename, a.dialect),
                            where,
                            build_orderby_clause(a.orderby, a.dialect),
                            build_limit_clause(a.limit, 0, a.dialect) >>,
                         where.params)

\* without `params` the result holds the default list object itself
build_raw_stmt(a) == Ok(a.stmt, IF a.hasparams THEN a.params ELSE raw_default)

buildquery(operation, a) ==
    CASE operation = "select" -> build_select_stmt(a)
      [] operation = "insert" -> build_insert_stmt(a)
      [] operation = "update" -> build_update_stmt(a)
      [] operation = "delete" -> build_delete_stmt(a)
      [] operation = "raw" -> build_raw_stmt(a)
      [] OTHER -> Raise("KeyError")

\* -------------------------------------------------------------- manager.py
\* a cursor after execute: lastrowid is <<>> (None) or <<n>>; description
\* tells whether column metadata is present; rows are what iteration yields,
\* each a plain dict or a dict-like row that can also be indexed by position
Row(kind, items) == [kind |-> kind, items |-> items]
Cursor(l, d, c, rows) == [lastrowid |-> l, description |-> d, rowcount |-> c, rows |-> rows]

Resp(kind, val) == [exc |-> "", kind |-> kind, val |-> val, handler |-> ""]
RespRaise(e) == [exc |-> e, kind |-> "raise", val |-> <<>>, handler |-> ""]

\* Python 2 range(a, b): the list of the integers from a up to b - 1
range(a, b) == [i \in 1..(IF b > a THEN b - a ELSE 0) |-> IntVal(a + i - 1)]

handle_select_response(cursor, dialect) ==
    IF cursor.rows = <<>> THEN Resp("iterator", <<>>)
    ELSE IF cursor.rows[1].items = <<>> THEN Resp("iterator", Tail(cursor.rows))
    ELSE IF cursor.rows[1].kind = "dict" THEN Resp("iterator", cursor.rows)
    ELSE Resp("iterator", [i \in 1..Len(cursor.rows) |-> Row("dict", cursor.rows[i].items)])

\* record[0]: the first column of a row indexed by position; a plain dict has
\* no key 0
RowFirst(row) ==
    IF row.kind = "dict" THEN Raise("KeyError")
    ELSE IF row.items = <<>> THEN Raise("IndexError")
    ELSE Ok(<<>>, <<row.items[1].value>>)

handle_insert_response_forward(cursor, dialect) ==
    IF dialect = "postgresql"
    THEN LET firsts == [i \in 1..Len(cursor.rows) |-> RowFirst(cursor.rows[i])]
         IN  IF FirstExc(firsts) # "" THEN RespRaise(FirstExc(firsts))
             ELSE Resp("list", [i \in 1..Len(firsts) |-> firsts[i].params[1]])
    ELSE Resp("list", range(cursor.lastrowid[1], cursor.lastrowid[1] + cursor.rowcount))

handle_insert_response(cursor, dialect) ==
    IF dialect = "postgresql"
    THEN LET firsts == [i \in 1..Len(cursor.rows) |-> RowFirst(cursor.rows[i])]
         IN  IF FirstExc(firsts) # "" THEN RespRaise(FirstExc(firsts))
             ELSE Resp("list", [i \in 1..Len(firsts) |-> firsts[i].params[1]])
    ELSE IF dialect = "mysql"
    THEN Resp("list", range(cursor.lastrowid[1], cursor.lastrowid[1] + cursor.rowcount))
    ELSE Resp("list", range(cursor.lastrowid[1] - cursor.rowcount, cursor.lastrowid[1]))

handle_other_response(cursor, dialect) == Resp("int", <<IntVal(cursor.rowcount)>>)

\* the truth value of cursor.lastrowid: None and 0 are false
TruthyId(l) == l # <<>> /\ l[1] # 0

handle_response_description_first(cursor, dialect) ==
    IF cursor.description
    THEN [handle_select_response(cursor, dialect) EXCEPT !.handler = "handle_select_response"]
    ELSE IF TruthyId(cursor.lastrowid)
    THEN [handle_insert_response(cursor, dialect) EXCEPT !.handler = "handle_insert_response"]
    ELSE [handle_other_response(cursor, dialect) EXCEPT !.handler = "handle_other_response"]

handle_response(cursor, dialect) ==
    IF TruthyId(cursor.lastrowid)
    THEN [handle_insert_response(cursor, dialect) EXCEPT !.handler = "handle_insert_response"]
    ELSE IF cursor.description
    THEN [handle_select_response(cursor, dialect) EXCEPT !.handler = "handle_select_response"]
    ELSE [handle_other_response(cursor, dialect) EXCEPT !.handler = "handle_other_response"]

\* the connection: what conn.cursor(), cursor.execute() and conn.commit() raise
\* ("" when they return) and the cursor that execute leaves
NoEnv == [cursor_exc |-> "", execute_exc |-> "", commit_exc |-> "",
          cursor |-> Cursor(<<>>, FALSE, 0, <<>>)]

Outcome(r, b, l) == [resp |-> r, built |-> b, log |-> l]

\* the steps of query() around the build: `built` is what buildquery returns
\* for the call
query_steps_always_commit(a, built) ==
    LET e == a.env
    IN  IF e.cursor_exc # ""
        THEN Outcome(RespRaise(e.cursor_exc), Ok(<<>>, <<>>), <<"cursor">>)
        ELSE IF built.exc # ""
        THEN Outcome(RespRaise(built.exc), built, <<"cursor", "buildquery">>)
        ELSE IF a.dry_run
        THEN Outcome(Resp("None", <<>>), built, <<"cursor", "buildquery", "stderr.write">>)
        ELSE IF e.execute_exc # ""
        THEN Outcome(RespRaise(e.execute_exc), built, <<"cursor", "buildquery", "execute">>)
        ELSE IF e.commit_exc # ""
        THEN Outcome(RespRaise(e.commit_exc), built,
                     <<"cursor", "buildquery", "execute", "commit">>)
        ELSE Outcome(handle_response(e.cursor, a.dialect), built,
                     <<"cursor", "buildquery", "execute">>
                     \o <<"commit">>
                     \o <<"handle_response">>)

query_steps(a, built) ==
    LET e == a.env
    IN  IF e.cursor_exc # ""
        THEN Outcome(RespRaise(e.cursor_exc), Ok(<<>>, <<>>), <<"cursor">>)
        ELSE IF built.exc # ""
        THEN Outcome(RespRaise(built.exc), built, <<"cursor", "buildquery">>)
        ELSE IF a.dry_run
        THEN Outcome(Resp("None", <<>>), built, <<"cursor", "buildquery", "stderr.write">>)
        ELSE IF e.execute_exc # ""
        THEN Outcome(RespRaise(e.execute_exc), built, <<"cursor", "buildquery", "execute">>)
        ELSE IF a.commit /\ e.commit_exc # ""
        THEN Outcome(RespRaise(e.commit_exc), built,
                     <<"cursor", "buildquery", "execute", "commit">>)
        ELSE Outcome(handle_response(e.cursor, a.dialect), built,
                     <<"cursor", "buildquery", "execute">>
                     \o (IF a.commit THEN <<"commit">> ELSE <<>>)
                     \o <<"handle_response">>)

query(operation, a) == query_steps(a, buildquery(operation, a))

\* ---------------------------------------------------------------- inputs
Dialects == {"standard", "mysql", "postgresql", "mssql"}

TableName == <<"orders">>

\* predicate key/value items a caller may put in a condition; the keys are
\* pairwise distinct, as the keys of one mapping are
PredPool ==
    << Item(<<"a", " ", "=">>, IntVal(1)),
       Item(<<"b", " ", "in">>, ListVal(<<IntVal(1), IntVal(2)>>)),
       Item(<<"c", " ", "like">>, IntVal(2)),
       Item(<<"a", " ", "not", " ", "in">>, ListVal(<<ListVal(<<IntVal(1)>>), IntVal(2)>>)),
       Item(<<"b", " ", ">=">>, ListVal(<<IntVal(1), IntVal(2)>>)),
       Item(<<"c", " ", "in">>, ListVal(<<>>)),
       Item(<<"a", " ", "in">>, IntVal(3)),
       Item(<<"b">>, IntVal(1)),
       Item(<<"c", " ", "~">>, IntVal(1)),
       Item(<<"a", " ", " ", "=">>, IntVal(1)) >>

\* the runs of at most n consecutive entries of a pool, the empty run included
Windows(pool, n) ==
    {<<>>} \cup {SubSeq(pool, w[1], w[1] + w[2] - 1) :
                   w \in {v \in (1..Len(pool)) \X (1..n) : v[1] + v[2] - 1 <= Len(pool)}}

Conditions == Windows(PredPool, MaxPreds)

SeqsUpTo(S, n) == UNION {[1..k -> S] : k \in 0..n}

ConditionLists == SeqsUpTo(Conditions, MaxGroups)
ShortConditionLists == {cl \in ConditionLists : Len(cl) <= 1}

FieldPool == << <<"a">>, <<"b">>, <<"c">> >>
OrderPool == << <<"-", "a">>, <<"b">>, <<"-", "c">> >>
FieldLists == Windows(FieldPool, MaxFields)
OrderLists == Windows(OrderPool, MaxFields)
FieldListSamples == {<<>>, SubSeq(FieldPool, 1, MaxFields)}
OrderListSamples == {<<>>, SubSeq(OrderPool, 1, MaxFields)}
Identifiers == {<<"orders">>, <<"a">>, <<"-", "a">>, <<>>}

Records ==
    { << Item(<<"a">>, IntVal(1)), Item(<<"b">>, IntVal(2)) >>,
      << Item(<<"a">>, IntVal(2)), Item(<<"b">>, IntVal(1)) >>,
      << Item(<<"b">>, IntVal(1)), Item(<<"a">>, IntVal(2)) >>,
      << Item(<<"a">>, IntVal(1)) >>,
      << Item(<<"b">>, IntVal(2)) >>,
      << Item(<<"a">>, ListVal(<<IntVal(1), IntVal(2)>>)), Item(<<"b">>, IntVal(1)) >>,
      << >> }
RecordLists == SeqsUpTo(Records, MaxRecords)

Paginations == {<<0, 0>>, <<0, MaxOffset>>, <<MaxLimit, 0>>, <<MaxLimit, MaxOffset>>}

RawStmts == {<<"SELECT", " ", "1">>, <<"SELECT", " ", "%s">>}
RawParams == {<<>>, <<IntVal(1)>>}

\* rows a cursor may yield: an empty row, a one-column row, a two-column row,
\* all of one kind within a result
RowPool ==
    << <<>>,
       << Item(<<"id">>, IntVal(7)) >>,
       << Item(<<"id">>, IntVal(8)), Item(<<"a">>, IntVal(1)) >> >>
RowLists ==
    UNION {{[i \in 1..Len(idx) |-> Row(k, RowPool[idx[i]])] :
              idx \in SeqsUpTo(1..Len(RowPool), MaxRows)} : k \in {"dict", "row"}}
LastRowIds == {<<>>} \cup {<<n>> : n \in 0..MaxLastRowId}
Cursors ==
    {Cursor(l, d, c, rows) :
       l \in LastRowIds, d \in BOOLEAN, c \in 0..MaxRowCount, rows \in RowLists}

\* the connections the dispatcher is run against
CursorSamples ==
    { Cursor(<<>>, FALSE, 1, <<>>),
      Cursor(<<3>>, FALSE, 2, <<>>),
      Cursor(<<0>>, TRUE, 2, <<Row("row", RowPool[2]), Row("row", RowPool[3])>>),
      Cursor(<<3>>, TRUE, 1, <<Row("row", RowPool[2])>>) }
EnvSamples ==
    {[NoEnv EXCEPT !.cursor = c] : c \in CursorSamples}
    \cup {[NoEnv EXCEPT !.cursor_exc = "InterfaceError"],
          [NoEnv EXCEPT !.execute_exc = "IntegrityError"],
          [NoEnv EXCEPT !.commit_exc = "OperationalError"]}

\* the keyword defaults of the builders and of the dispatcher
DefaultArgs ==
    [tablename |-> <<>>, fieldlist |-> <<>>, where |-> <<>>, groupby |-> <<>>,
     having |-> <<>>, orderby |-> <<>>, limit |-> 0, offset |-> 0,
     dialect |-> "standard", recordlist |-> <<>>, recordpatch |-> <<>>,
     stmt |-> <<>>, params |-> <<>>, hasparams |-> FALSE, identifier |-> <<>>,
     keyword |-> "WHERE", operation |-> "none", commit |-> TRUE,
     dry_run |-> FALSE, env |-> NoEnv]

\* ----------------------------------------------------------- transitions
NoRet == [exc |-> "", stmt |-> <<>>, params |-> <<>>]

NoResp == Resp("unset", <<>>)

Init ==
    /\ pc = "idle"
    /\ fn = "none"
    /\ args = DefaultArgs
    /\ ret = NoRet
    /\ resp = NoResp
    /\ log = <<>>
    /\ raw_default = <<>>

Responded(f, a, out) ==
    /\ pc' = "returned"
    /\ fn' = f
    /\ args' = a
    /\ ret' = out.built
    /\ resp' = out.resp
    /\ log' = out.log
    /\ UNCHANGED raw_default

Called(f, a, r) == Responded(f, a, Outcome(NoResp, r, <<>>))

Select ==
    /\ pc = "idle"
    /\ \E d \in Dialects, w \in ShortConditionLists, h \in ShortConditionLists,
          fl \in FieldListSamples, g \in FieldListSamples, o \in OrderListSamples,
          pg \in Paginations :
           LET a == [DefaultArgs EXCEPT !.tablename = TableName, !.dialect = d,
                       !.fieldlist = fl, !.where = w, !.groupby = g, !.having = h,
                       !.orderby = o, !.limit = pg[1], !.offset = pg[2]]
           IN  Called("select", a, buildquery("select", a))

Insert ==
    /\ pc = "idle"
    /\ \E d \in Dialects, rl \in RecordLists :
           LET a == [DefaultArgs EXCEPT !.tablename = TableName, !.dialect = d,
                       !.recordlist = rl]
           IN  Called("insert", a, buildquery("insert", a))

Update ==
    /\ pc = "idle"
    /\ \E d \in Dialects, r \in Records, w \in ShortConditionLists,
          o \in OrderListSamples, pg \in Paginations :
           LET a == [DefaultArgs EXCEPT !.tablename = TableName, !.dialect = d,
                       !.recordpatch = r, !.where = w, !.orderby = o,
                       !.limit = pg[1], !.offset = pg[2]]
           IN  Called("update", a, buildquery("update", a))

Delete ==
    /\ pc = "idle"
    /\ \E d \in Dialects, w \in ConditionLists, o \in OrderListSamples,
          l \in {0, MaxLimit} :
           LET a == [DefaultArgs EXCEPT !.tablename = TableName, !.dialect = d,
                       !.where = w, !.orderby = o, !.limit = l]
           IN  Called("delete", a, buildquery("delete", a))

Raw ==
    /\ pc = "idle"
    /\ \E d \in Dialects, s \in RawStmts, given \in BOOLEAN :
         \E p \in IF given THEN RawParams ELSE {<<>>} :
           LET a == [DefaultArgs EXCEPT !.dialect = d, !.stmt = s, !.params = p,
                       !.hasparams = given]
           IN  Called("raw", a, buildquery("raw", a))

BuildWhereClause ==
    /\ pc = "idle"
    /\ \E d \in Dialects, cl \in ConditionLists, kw \in {"WHERE", "HAVING"} :
           LET a == [DefaultArgs EXCEPT !.dialect = d, !.where = cl, !.keyword = kw]
           IN  Called("build_where_clause", a, build_where_clause(cl, kw, d))

BuildOrderbyClause ==
    /\ pc = "idle"
    /\ \E d \in Dialects, o \in OrderLists :
           LET a == [DefaultArgs EXCEPT !.dialect = d, !.orderby = o]
           IN  Called("build_orderby_clause", a, build_orderby_clause(o, d))

BuildLimitClause ==
    /\ pc = "idle"
    /\ \E d \in Dialects, l \in 0..MaxLimit, o \in 0..MaxOffset :
           LET a == [DefaultArgs EXCEPT !.dialect = d, !.limit = l, !.offset = o]
           IN  Called("build_limit_clause", a, build_limit_clause(l, o, d))

QuoteIdentifier ==
    /\ pc = "idle"
    /\ \E d \in Dialects, x \in Identifiers :
           LET a == [DefaultArgs EXCEPT !.dialect = d, !.identifier = x]
           IN  Called("quote_identifier", a, quote_identifier(x, d))

\* the arguments the dispatcher is called with, per operation
QueryArgs(operation) ==
    LET base(d) == [DefaultArgs EXCEPT !.operation = operation, !.dialect = d,
                      !.tablename = TableName]
    IN  UNION {
          CASE operation = "select" ->
                 {[base(d) EXCEPT !.where = w, !.orderby = o] :
                    w \in {<<>>, << <<PredPool[1]>> >>, << <<PredPool[9]>> >>},
                    o \in OrderListSamples}
            [] operation = "insert" ->
                 {[base(d) EXCEPT !.recordlist = rl] :
                    rl \in {<<>>, << <<Item(<<"a">>, IntVal(1))>> >>}}
            [] operation = "update" ->
                 {[base(d) EXCEPT !.recordpatch = <<Item(<<"a">>, IntVal(1))>>,
                     !.where = w] : w \in {<<>>, << <<PredPool[2]>> >>}}
            [] operation = "delete" ->
                 {[base(d) EXCEPT !.where = w] : w \in {<<>>, << <<PredPool[1]>> >>}}
            [] OTHER ->
                 {[base(d) EXCEPT !.tablename = <<>>, !.stmt = <<"SELECT", " ", "1">>,
                     !.hasparams = TRUE]}
          : d \in Dialects}

Query ==
    /\ pc = "idle"
    /\ \E operation \in {"select", "insert", "update", "delete", "raw"},
          c \in BOOLEAN, dr \in BOOLEAN, e \in EnvSamples :
         \E qa \in QueryArgs(operation) :
           LET a == [qa EXCEPT !.commit = c, !.dry_run = dr, !.env = e]
           IN  Responded("query", a, query(operation, a))

HandleResponse ==
    /\ pc = "idle"
    /\ \E d \in Dialects, c \in Cursors :
           LET a == [DefaultArgs EXCEPT !.dialect = d, !.env = [NoEnv EXCEPT !.cursor = c]]
           IN  Responded("handle_response", a,
                         Outcome(handle_response(c, d), NoRet, <<>>))

\* the caller takes the result; every call starts afresh
Return ==
    /\ pc \in {"returned", "mutated"}
    /\ pc' = "idle"
    /\ fn' = "none"
    /\ args' = DefaultArgs
    /\ ret' = NoRet
    /\ resp' = NoResp
    /\ log' = <<>>
    /\ UNCHANGED raw_default

Next ==
    \/ Select
    \/ Insert
    \/ Update
    \/ Delete
    \/ Raw
    \/ BuildWhereClause
    \/ BuildOrderbyClause
    \/ BuildLimitClause
    \/ QuoteIdentifier
    \/ Query
    \/ HandleResponse
    \/ Return

Spec == Init /\ [][Next]_vars

\* a caller appends to the parameter list a raw build returned; when the build
\* was called without `params`, that list is the default object itself
MutateReturned ==
    /\ pc \in {"returned", "mutated"}
    /\ fn = "raw"
    /\ ret.exc = ""
    /\ Len(ret.params) <= MaxAppends
    /\ pc' = "mutated"
    /\ ret' = [ret EXCEPT !.params = Append(@, IntVal(5))]
    /\ raw_default' = IF args.hasparams THEN raw_default
                      ELSE Append(raw_default, IntVal(5))
    /\ UNCHANGED <<fn, args, resp, log>>

\* builds whose callers modify the lists they are handed back
NextShared ==
    \/ Raw
    \/ Insert
    \/ MutateReturned
    \/ Return

SpecShared == Init /\ [][NextShared]_vars

\* ------------------------------------------------- reading a text back
Count(s, x) == Cardinality({i \in 1..Len(s) : s[i] = x})

Returned(f) == pc = "returned" /\ fn = f
ReturnedOk(f) == Returned(f) /\ ret.exc = ""

FirstAt(s, x) == CHOOSE i \in 1..Len(s) : s[i] = x /\ \A j \in 1..(i - 1) : s[j] # x

RECURSIVE SplitOn(_, _)
SplitOn(s, x) ==
    IF \A i \in 1..Len(s) : s[i] # x THEN <<s>>
    ELSE <<SubSeq(s, 1, FirstAt(s, x) - 1)>>
         \o SplitOn(SubSeq(s, FirstAt(s, x) + 1, Len(s)), x)

RECURSIVE Trim(_)
Trim(s) ==
    IF s # <<>> /\ s[1] = " " THEN Trim(Tail(s))
    ELSE IF s # <<>> /\ s[Len(s)] = " " THEN Trim(SubSeq(s, 1, Len(s) - 1))
    ELSE s

\* the predicate texts of one parenthesized group "(p AND q ...)"
GroupPredicates(g) ==
    IF Len(g) < 2 \/ g[1] # "(" \/ g[Len(g)] # ")" THEN << <<"?">> >>
    ELSE IF Len(g) = 2 THEN <<>>
    ELSE LET parts == SplitOn(SubSeq(g, 2, Len(g) - 1), "AND")
         IN  [i \in 1..Len(parts) |-> Trim(parts[i])]

\* the groups of a clause text "KEYWORD (..) OR (..)", each a sequence of
\* predicate texts
ParsedGroups(text) ==
    LET parts == SplitOn(SubSeq(text, 3, Len(text)), "OR")
    IN  [i \in 1..Len(parts) |-> GroupPredicates(Trim(parts[i]))]

InOperators == {<<"in">>, <<"not", " ", "in">>}
ClosedOperatorSet ==
    {<<"=">>, <<">">>, <<"<">>, <<"!=">>, <<"<=">>, <<">=">>, <<"in">>,
     <<"not", " ", "in">>, <<"like">>, <<"not", " ", "like">>}

HasOperator(key) == \E i \in 1..Len(key) : key[i] = " "
OperatorOf(key) == SubSeq(key, FirstAt(key, " ") + 1, Len(key))
ValidKey(key) == HasOperator(key) /\ OperatorOf(key) \in ClosedOperatorSet
IsInList(item) ==
    HasOperator(item.key) /\ OperatorOf(item.key) \in InOperators /\ IsList(item.value)

\* the placeholder part of a rendered predicate 'quoted-field operator placeholders'
PlaceholderPart(text, key) == SubSeq(text, Len(key) + 4, Len(text))

\* the parameters a predicate's value contributes
Contribution(item) == IF IsList(item.value) THEN item.value.items ELSE <<item.value>>

RECURSIVE ParamsBefore(_, _)
ParamsBefore(items, k) ==
    IF k <= 1 THEN 0
    ELSE ParamsBefore(items, k - 1) + Len(Contribution(items[k - 1]))

\* ---------------------------------------------------------------- claims

\* C1: every statement buildquery returns for select, insert, update or
\* delete has exactly as many %s placeholders as it has parameters.
PlaceholderParity ==
    (pc = "returned" /\ fn \in {"select", "insert", "update", "delete"} /\ ret.exc = "")
        => Count(ret.stmt, "%s") = Len(ret.params)

FieldSet(record) == {record[i].key : i \in 1..Len(record)}
Mismatched(recordlist) ==
    \E i \in 1..Len(recordlist) :
        \/ FieldSet(recordlist[i]) # FieldSet(recordlist[1])
        \/ Len(recordlist[i]) # Len(recordlist[1])
ValueTuples(stmt) == Count(SubSeq(stmt, FirstAt(stmt, "VALUES"), Len(stmt)), "(")

\* C2: an insert of records whose field sets differ from the first record's
\* raises; an insert of records sharing it returns one value tuple per record
\* and the records' values, concatenated in record order, as parameters.
InsertFieldSetConsistency ==
    (Returned("insert") /\ args.recordlist # <<>>)
        => IF Mismatched(args.recordlist)
           THEN ret.exc # ""
           ELSE ret.exc = ""
                => /\ ValueTuples(ret.stmt) = Len(args.recordlist)
                   /\ ret.params = chain([i \in 1..Len(args.recordlist) |->
                                            values(args.recordlist[i])])

\* C3: in a clause build_where_clause returns, every `in` / `not in` predicate
\* with a list value of n elements is rendered with a parenthesized list of
\* exactly n placeholders, and its n elements, each left as it is, are the n
\* parameters that follow the parameters of the predicates before it.
InListFlattening ==
    (ReturnedOk("build_where_clause") /\ args.where # <<>>)
        => LET items == chain(args.where)
               texts == chain(ParsedGroups(ret.stmt))
           IN  /\ Len(texts) = Len(items)
               /\ \A k \in 1..Len(items) :
                    IsInList(items[k]) =>
                      LET n == Len(items[k].value.items)
                          off == ParamsBefore(items, k)
                      IN  /\ PlaceholderPart(texts[k], items[k].key)
                               = <<"(">> \o Join(<<",">>, Repeat(<<"%s">>, n)) \o <<")">>
                          /\ off + n <= Len(ret.params)
                          /\ SubSeq(ret.params, off + 1, off + n) = items[k].value.items

\* C3 witness: a returned clause holding an `in` predicate whose list has a
\* nested list element, after another predicate.
InListFlatteningWitness ==
    /\ ReturnedOk("build_where_clause")
    /\ \E g \in 1..Len(args.where) :
         /\ Len(args.where[g]) = 2
         /\ IsInList(args.where[g][2])
         /\ \E e \in 1..Len(args.where[g][2].value.items) :
              IsList(args.where[g][2].value.items[e])
    /\ Len(ret.params) >= 3

\* the number of parameters the predicates are specified to contribute
SpecWidth(item) == IF IsInList(item) THEN Len(item.value.items) ELSE 1
RECURSIVE SpecParamsBefore(_, _)
SpecParamsBefore(items, k) ==
    IF k <= 1 THEN 0
    ELSE SpecParamsBefore(items, k - 1) + SpecWidth(items[k - 1])

\* C4: in a clause build_where_clause returns, a predicate whose operator is
\* not `in` / `not in` and whose value is a list is rendered with one
\* placeholder and contributes that list as exactly one parameter.
OpaqueSequenceValue ==
    (ReturnedOk("build_where_clause") /\ args.where # <<>>)
        => LET items == chain(args.where)
               texts == chain(ParsedGroups(ret.stmt))
           IN  /\ Len(texts) = Len(items)
               /\ \A k \in 1..Len(items) :
                    (IsList(items[k].value) /\ ~IsInList(items[k])) =>
                      /\ PlaceholderPart(texts[k], items[k].key) = <<"%s">>
                      /\ SpecParamsBefore(items, k) + 1 <= Len(ret.params)
                      /\ ret.params[SpecParamsBefore(items, k) + 1] = items[k].value
                      /\ Len(ret.params) = SpecParamsBefore(items, Len(items) + 1)

InvalidPredicateIn(conditionlist) ==
    \E g \in 1..Len(conditionlist) : \E j \in 1..Len(conditionlist[g]) :
        ~ValidKey(conditionlist[g][j].key)

\* C5: a select, update or delete build whose WHERE or HAVING condition set
\* holds a predicate key without an operator, or with an operator outside the
\* closed set, raises and returns neither statement text nor parameters.
PredicateValidation ==
    (pc = "returned" /\ fn \in {"select", "update", "delete"}
        /\ (InvalidPredicateIn(args.where) \/ InvalidPredicateIn(args.having)))
        => ret.exc # "" /\ ret.stmt = <<>> /\ ret.params = <<>>

\* C5 witness: a select on a dialect with quoting, whose HAVING alone holds an
\* operator outside the closed set, has raised ValueError.
PredicateValidationWitness ==
    /\ Returned("select")
    /\ args.dialect = "mysql"
    /\ ~InvalidPredicateIn(args.where)
    /\ Len(args.having) = 1
    /\ \E j \in 1..Len(args.having[1]) :
         /\ HasOperator(args.having[1][j].key)
         /\ OperatorOf(args.having[1][j].key) \notin ClosedOperatorSet
    /\ ret.exc = "ValueError"

Wrapped(x, d) ==
    CASE d \in {"standard", "postgresql"} -> <<"\"">> \o x \o <<"\"">>
      [] d = "mysql" -> <<BACKTICK>> \o x \o <<BACKTICK>>
      [] d = "mssql" -> <<"[">> \o x \o <<"]">>

\* C6: for each of the four dialects quote_identifier returns the identifier
\* wrapped in that dialect's quoting characters.
QuotingByDialect ==
    Returned("quote_identifier")
        => ret.exc = "" /\ ret.stmt = Wrapped(args.identifier, args.dialect)

OrderEntry(f, d) ==
    Wrapped(lstrip(f, "-"), d) \o <<" ">> \o (IF f[1] = "-" THEN <<"DESC">> ELSE <<"ASC">>)

\* C7: build_orderby_clause returns ORDER BY and one entry per field, in
\* order, DESC for a name with a leading minus sign and ASC otherwise; an
\* empty order list yields no text.
OrderingRendering ==
    Returned("build_orderby_clause")
        => /\ ret.exc = ""
           /\ ret.stmt =
                IF args.orderby = <<>> THEN <<>>
                ELSE <<"ORDER", " ", "BY", " ">>
                     \o Join(<<",", " ">>,
                             [i \in 1..Len(args.orderby) |->
                                OrderEntry(args.orderby[i], args.dialect)])

ClauseKeywords == <<"WHERE", "GROUP", "HAVING", "ORDER", "LIMIT">>
ClausePresent(a) ==
    << a.where # <<>>, a.groupby # <<>>, a.having # <<>>, a.orderby # <<>>, a.limit # 0 >>

\* C8: the text build_select_stmt returns holds exactly the non-empty
\* clauses, in the order WHERE, GROUP BY, HAVING, ORDER BY, LIMIT, with no two
\* consecutive separating spaces and no trailing separator.
ClauseOrderNoStraySeparators ==
    ReturnedOk("select")
        => /\ \A i \in 1..Len(ClauseKeywords) :
                Count(ret.stmt, ClauseKeywords[i]) = (IF ClausePresent(args)[i] THEN 1 ELSE 0)
           /\ \A i, j \in 1..Len(ClauseKeywords) :
                (i < j /\ ClausePresent(args)[i] /\ ClausePresent(args)[j])
                    => FirstAt(ret.stmt, ClauseKeywords[i]) < FirstAt(ret.stmt, ClauseKeywords[j])
           /\ \A k \in 1..(Len(ret.stmt) - 1) : ~(ret.stmt[k] = " " /\ ret.stmt[k + 1] = " ")
           /\ ret.stmt[Len(ret.stmt)] # " "

DigitValue(c) == CHOOSE d \in 0..9 : Digit(d) = c
RECURSIVE Number(_)
Number(s) ==
    IF s = <<>> THEN 0
    ELSE 10 * Number(SubSeq(s, 1, Len(s) - 1)) + DigitValue(s[Len(s)])

\* C9: for a limit n > 0 and an offset o, build_limit_clause renders
\* `OFFSET o LIMIT n` for postgresql and `LIMIT o, n` for every other dialect;
\* for a limit of 0 it renders nothing, whatever the offset.
PaginationByDialect ==
    Returned("build_limit_clause")
        => /\ ret.exc = ""
           /\ LET words == SplitOn(ret.stmt, " ")
              IN  IF args.limit = 0 THEN ret.stmt = <<>>
                  ELSE IF args.dialect = "postgresql"
                  THEN /\ Len(words) = 4
                       /\ words[1] = <<"OFFSET">> /\ Number(words[2]) = args.offset
                       /\ words[3] = <<"LIMIT">> /\ Number(words[4]) = args.limit
                  ELSE /\ Len(words) = 3
                       /\ words[1] = <<"LIMIT">>
                       /\ words[2][Len(words[2])] = ","
                       /\ Number(SubSeq(words[2], 1, Len(words[2]) - 1)) = args.offset
                       /\ Number(words[3]) = args.limit

\* C9 witness: limit 10 with offset 5 on postgresql has rendered OFFSET 5 LIMIT 10.
PaginationByDialectWitness ==
    /\ Returned("build_limit_clause")
    /\ args.limit = 10 /\ args.offset = 5 /\ args.dialect = "postgresql"
    /\ ret.stmt = <<"OFFSET", " ", "5", " ", "LIMIT", " ", "1", "0">>

\* C10: a clause build_where_clause returns for a non-empty condition set
\* starts with the keyword, has one parenthesized group per condition, joined
\* by OR in order, each holding one predicate per key, joined by AND in key
\* order, and its parameters are the values' parameters group by group, key by
\* key; an empty condition set yields empty text and no parameters.
OrAndSemantics ==
    ReturnedOk("build_where_clause")
        => IF args.where = <<>> THEN ret.stmt = <<>> /\ ret.params = <<>>
           ELSE LET groups == ParsedGroups(ret.stmt)
                IN  /\ ret.stmt[1] = args.keyword /\ ret.stmt[2] = " "
                    /\ Len(groups) = Len(args.where)
                    /\ \A g \in 1..Len(args.where) :
                         /\ Len(groups[g]) = Len(args.where[g])
                         /\ \A j \in 1..Len(args.where[g]) :
                              LET key == args.where[g][j].key
                                  text == groups[g][j]
                              IN  /\ Len(text) >= Len(key) + 4
                                  /\ <<text[2]>> \o SubSeq(text, 4, Len(key) + 2) = key
                    /\ ret.params =
                         chain([k \in 1..Len(chain(args.where)) |->
                                  Contribution(chain(args.where)[k])])

\* C10 witness: a returned clause of two groups, the first of two predicates,
\* with an OR, an AND and at least three parameters.
OrAndSemanticsWitness ==
    /\ ReturnedOk("build_where_clause")
    /\ Len(args.where) = 2
    /\ Len(args.where[1]) = 2 /\ Len(args.where[2]) = 1
    /\ Count(ret.stmt, "OR") = 1 /\ Count(ret.stmt, "AND") = 1
    /\ Len(ret.params) >= 3

\* the parameters a condition set contributes, group by group, key by key
ExpectedParams(conditionlist) ==
    chain([k \in 1..Len(chain(conditionlist)) |-> Contribution(chain(conditionlist)[k])])

\* C11: the parameters of a returned SELECT are the WHERE parameters followed
\* by the HAVING parameters; of an UPDATE, the patch values in patch field
\* order followed by the WHERE parameters; of a DELETE, the WHERE parameters;
\* ordering and pagination add none.
ParameterOrder ==
    /\ ReturnedOk("select")
         => ret.params = ExpectedParams(args.where) \o ExpectedParams(args.having)
    /\ ReturnedOk("update")
         => ret.params = values(args.recordpatch) \o ExpectedParams(args.where)
    /\ ReturnedOk("delete")
         => ret.params = ExpectedParams(args.where)

\* C11 witness: a returned paginated SELECT whose WHERE and HAVING contribute
\* different parameters.
ParameterOrderWitness ==
    /\ ReturnedOk("select")
    /\ args.limit > 0
    /\ ExpectedParams(args.where) # <<>>
    /\ ExpectedParams(args.having) # <<>>
    /\ ExpectedParams(args.where) \o ExpectedParams(args.having)
         # ExpectedParams(args.having) \o ExpectedParams(args.where)


\* ------------------------------------------------- response classification
\* the cursor reports a generated last-row identifier
HasLastRowId(cursor) == cursor.lastrowid # <<>> /\ cursor.lastrowid[1] # 0

\* the result kind the classification priority assigns to a cursor
ExpectedHandler(cursor) ==
    IF HasLastRowId(cursor) THEN "handle_insert_response"
    ELSE IF cursor.description THEN "handle_select_response"
    ELSE "handle_other_response"

\* C12: for every cursor state and dialect the response is an insert result
\* when the cursor reports a last-row identifier, even with column metadata
\* present; otherwise a row result when column metadata is present; otherwise
\* the affected-row count as a scalar; and the choice itself never raises: an
\* exception can only come out of reading the rows of the insert result
ResponseClassification ==
    Returned("handle_response") =>
        LET cursor == args.env.cursor IN
        /\ resp.handler = ExpectedHandler(cursor)
        /\ resp.exc = "" =>
              /\ HasLastRowId(cursor) => resp.kind = "list"
              /\ ~HasLastRowId(cursor) /\ cursor.description => resp.kind = "iterator"
              /\ ~HasLastRowId(cursor) /\ ~cursor.description =>
                    resp = [Resp("int", <<IntVal(cursor.rowcount)>>)
                              EXCEPT !.handler = "handle_other_response"]
        /\ resp.exc # "" => HasLastRowId(cursor) /\ args.dialect = "postgresql"

ResponseClassificationWitness ==
    /\ Returned("handle_response")
    /\ HasLastRowId(args.env.cursor) /\ args.env.cursor.description
    /\ resp.exc = "" /\ resp.kind = "list" /\ resp.val # <<>>
    /\ args.dialect = "standard"


\* ----------------------------------------------------------- insert results
InsertResult ==
    Returned("handle_response") /\ resp.handler = "handle_insert_response"

\* C13: an insert result with reported identifier L and affected-row count c
\* is, for mysql, the identifiers L .. L+c-1 and, for every dialect other than
\* mysql and postgresql, the identifiers L-c .. L-1: exactly c elements, in
\* ascending order
InsertIdRange ==
    (InsertResult /\ args.dialect # "postgresql") =>
        LET L == args.env.cursor.lastrowid[1]
            c == args.env.cursor.rowcount
            first == IF args.dialect = "mysql" THEN L ELSE L - c
        IN  /\ resp.exc = "" /\ resp.kind = "list"
            /\ Len(resp.val) = c
            /\ \A i \in 1..c : resp.val[i] = IntVal(first + i - 1)

InsertIdRangeWitness ==
    /\ InsertResult /\ args.dialect \in {"standard", "mssql"}
    /\ args.env.cursor.rowcount = 2 /\ args.env.cursor.lastrowid = <<4>>
    /\ resp.val = <<IntVal(2), IntVal(3)>>


\* ------------------------------------------------------------ the dispatcher
Invoked(call) == Count(log, call) > 0
BuildRaised == ret.exc # ""

\* C14: a manager call with dry_run true builds the statement, never calls
\* execute, commit or the response handler, and returns None; it can fail only
\* with an error of the build, never with an error of the driver
DryRun ==
    (Returned("query") /\ args.dry_run) =>
        /\ ~Invoked("execute") /\ ~Invoked("commit") /\ ~Invoked("handle_response")
        /\ Invoked("buildquery")
        /\ resp.exc = "" => resp.kind = "None" /\ ~BuildRaised
        /\ resp.exc # "" => BuildRaised /\ resp.exc = ret.exc

\* C15: in a manager call without dry_run, commit is invoked once when the
\* commit flag is true and execute has returned, and never when the flag is
\* false; it comes right after execute and before the response handler; when
\* execute raises, its error reaches the caller unchanged and neither commit
\* nor rollback is invoked; when the build raises, neither execute nor commit
\* is invoked
AutoCommitOrdering ==
    (Returned("query") /\ ~args.dry_run) =>
        /\ Count(log, "commit") <= 1 /\ Count(log, "execute") <= 1
        /\ ~args.commit => ~Invoked("commit")
        /\ Invoked("commit") => /\ Invoked("execute")
                                /\ FirstAt(log, "commit") = FirstAt(log, "execute") + 1
        /\ Invoked("handle_response") =>
              /\ FirstAt(log, "handle_response") = Len(log)
              /\ Invoked("execute")
              /\ args.commit => Invoked("commit")
        /\ (Invoked("execute") /\ args.env.execute_exc = "" /\ args.commit) =>
              Count(log, "commit") = 1
        /\ (Invoked("execute") /\ args.env.execute_exc # "") =>
              /\ resp.exc = args.env.execute_exc
              /\ ~Invoked("commit") /\ ~Invoked("rollback")
        /\ BuildRaised =>
              /\ resp.exc = ret.exc
              /\ ~Invoked("execute") /\ ~Invoked("commit")

AutoCommitOrderingWitness ==
    /\ Returned("query") /\ ~args.dry_run /\ args.commit
    /\ log = <<"cursor", "buildquery", "execute", "commit", "handle_response">>
    /\ resp.exc = "" /\ resp.kind = "list"


\* ------------------------------------------------------- build independence
\* what a build returns when it is the first call ever made
FirstResult(f, a) ==
    IF f = "raw" /\ ~a.hasparams THEN Ok(a.stmt, <<>>) ELSE buildquery(f, a)

\* C16: what buildquery returns depends only on the arguments of the call: the
\* same build returns the same text and the same parameters as when it was
\* first made, whatever builds ran in between and whatever callers did to the
\* parameter lists returned earlier, a raw build without params included
BuildIndependence ==
    (pc = "returned" /\ fn \in {"insert", "raw"}) =>
        ret = FirstResult(fn, args)


\* -------------------------------------------------------------- row results
PlainRows(rows) == [i \in 1..Len(rows) |-> Row("dict", rows[i].items)]

\* C17: for a cursor that yields the rows r1..rn, the row result yields exactly
\* r1..rn in cursor order, each once and each as a plain mapping; no row is
\* dropped, an empty first row included
RowResultCompleteness ==
    (Returned("handle_response") /\ resp.handler = "handle_select_response") =>
        /\ resp.exc = "" /\ resp.kind = "iterator"
        /\ resp.val = PlainRows(args.env.cursor.rows)

====
